---- MODULE Spec2Model ----
(***************************************************************************)
(* marctable: MARC records are read one at a time, projected through a     *)
(* mapping compiled from extraction rules against the Avram schema, and    *)
(* handed in batches to a CSV, JSONL, Parquet or DataFrame sink.           *)
(*                                                                         *)
(* Strings are sequences of characters (one-character strings), so that    *)
(* slicing (rule[0:3], rule[3:]) and f-string concatenation are computed.  *)
(* A Python dict is a sequence of [k, v] entries in insertion order.       *)
(***************************************************************************)
EXTENDS FiniteSets, Integers, Sequences, TLC

VARIABLES
    sink,        \* the export entry point called: csv, jsonl, parquet, dataframe
    rules,       \* the rules argument: None or a list of rule strings
    batch,       \* the batch argument
    marc_input,  \* what the pymarc reader yields, in order (a record or None)
    pc,          \* position in the entry point / generators
    pos,         \* number of reader items consumed so far
    mapping,     \* records_iter's local mapping
    columns,     \* dataframe_iter's local columns
    frames,      \* the DataFrames dataframe_iter has yielded, in order
    schema,      \* to_parquet's local schema
    rows,        \* records_iter's local rows
    emitted,     \* the batches records_iter has yielded, in order
    output,      \* what the sink has written, in order
    first_batch, \* to_csv's local first_batch
    error        \* the exception that left the entry point, if any

vars == << sink, rules, batch, marc_input, pc, pos, mapping, columns, frames,
           schema, rows, emitted, output, first_batch, error >>

----------------------------------------------------------------------------
(* Bounds of the model.                                                    *)

MaxRules == 2      \* rule lists hold at most this many rules
MaxFields == 2     \* a record holds at most this many fields
MaxRecords == 4    \* a stream holds at most this many reader items
MaxBatch == 3      \* batch sizes 0..MaxBatch

----------------------------------------------------------------------------
(* Generic helpers.                                                        *)

Min(a, b) == IF a < b THEN a ELSE b

SeqsUpTo(S, n) == UNION { [1..k -> S] : k \in 0..n }

Range(s) == { s[i] : i \in 1..Len(s) }

RECURSIVE Flatten(_)
Flatten(ss) == IF ss = << >> THEN << >> ELSE Head(ss) \o Flatten(Tail(ss))

\* Python: s[a:] and s[0:b] on strings (out-of-range slices are empty).
SliceTo(s, b) == SubSeq(s, 1, Min(b, Len(s)))
SliceFrom(s, a) == SubSeq(s, a + 1, Len(s))

\* Python dict, insertion ordered: d[k] = v keeps the position of an existing k.
DictKeys(d) == { d[i].k : i \in 1..Len(d) }
DictHas(d, k) == k \in DictKeys(d)
DictGet(d, k) == (CHOOSE i \in 1..Len(d) : d[i].k = k) \* index of k
DictVal(d, k) == d[DictGet(d, k)].v

\* Mutant of DictSet: an existing key keeps its value (the first write wins).
DictSet_keep_first(d, k, v) ==
    IF DictHas(d, k) THEN d ELSE Append(d, [k |-> k, v |-> v])

DictSet(d, k, v) ==
    IF DictHas(d, k)
    THEN [d EXCEPT ![DictGet(d, k)] = [k |-> k, v |-> v]]
    ELSE Append(d, [k |-> k, v |-> v])

\* Iterating a Python set: its elements in the process's iteration order.
RECURSIVE SetIter(_, _)
SetIter(S, ord) ==
    IF ord = << >> THEN << >>
    ELSE (IF Head(ord) \in S THEN << Head(ord) >> ELSE << >>) \o SetIter(S, Tail(ord))

----------------------------------------------------------------------------
(* The Avram schema (marc.py).  A small schema document with a control     *)
(* field, a non-repeatable data field and a repeatable data field, each    *)
(* data field with a non-repeatable and a repeatable subfield.             *)

T001 == << "0", "0", "1" >>
T245 == << "2", "4", "5" >>
T650 == << "6", "5", "0" >>
T999 == << "9", "9", "9" >>

Subfield(code, repeatable) == [code |-> code, repeatable |-> repeatable]

Field(tag, repeatable, subfields) ==
    [tag |-> tag, repeatable |-> repeatable, subfields |-> subfields]

\* MARC.from_avram: marc.fields in the order of the document's "fields".
from_avram ==
    << Field(T001, FALSE, << >>),
       Field(T245, FALSE, << Subfield("a", FALSE), Subfield("n", TRUE) >>),
       Field(T650, TRUE, << Subfield("a", FALSE), Subfield("v", TRUE) >>) >>

\* A raised exception: its class and the parts of its message.
Raise(type, msg) == [raised |-> TRUE, type |-> type, msg |-> msg]
Return(value) == [raised |-> FALSE, isNone |-> FALSE, value |-> value]

\* Field.get_subfield: first subfield with the code, else SchemaSubfieldError.
Field_get_subfield(field, code) ==
    LET hit == { i \in 1..Len(field.subfields) : field.subfields[i].code = code }
    IN  IF hit # {}
        THEN Return(field.subfields[CHOOSE i \in hit : \A j \in hit : i <= j])
        ELSE Raise("SchemaSubfieldError",
                   << code, " is not a valid subfield in field ", field.tag >>)

\* MARC.get_field: first field with the tag, else SchemaFieldError.
get_field(marc, tag) ==
    LET hit == { i \in 1..Len(marc) : marc[i].tag = tag }
    IN  IF hit # {}
        THEN Return(marc[CHOOSE i \in hit : \A j \in hit : i <= j])
        ELSE Raise("SchemaFieldError",
                   << tag, " is not a defined field tag in Avram schema" >>)

\* MARC.get_subfield: get_field's exception propagates.
get_subfield(marc, tag, code) ==
    LET field == get_field(marc, tag)
    IN  IF field.raised THEN field ELSE Field_get_subfield(field.value, code)

----------------------------------------------------------------------------
(* Rule compilation (utils.py _mapping, _columns, _make_parquet_schema).   *)

\* A mapping value: None, or a set of subfield codes.
NoneValue == [isNone |-> TRUE, codes |-> {}]
Codes(S) == [isNone |-> FALSE, codes |-> S]

\* Mutant of OrNone: the `or None` is dropped, an empty set stays a set.
OrNone_keep_empty(S) == Codes(S)

\* `subfields or None`: an empty set is falsy.
OrNone(S) == IF S = {} THEN NoneValue ELSE Codes(S)

\* The loop over the codes of one rule: the first code, in iteration order,
\* whose lookup raises ends the compilation.  get_subfield never returns
\* None, so the rule's own "unknown MARC subfield" exception is not raised
\* unless a lookup returns None.
RECURSIVE _mapping_subfields(_, _, _, _)
_mapping_subfields(marc, rule, field_tag, codes) ==
    IF codes = << >> THEN Return(TRUE)
    ELSE LET sf == get_subfield(marc, field_tag, Head(codes))
         IN  IF sf.raised THEN sf
             ELSE IF sf.isNone
             THEN Raise("Exception", << "unknown MARC subfield in mapping rule: ", rule >>)
             ELSE _mapping_subfields(marc, rule, field_tag, Tail(codes))

\* The loop over the rules, from rule i on, with the dict m built so far.
RECURSIVE _mapping_rules(_, _, _, _, _)
_mapping_rules(marc, rs, i, m, ord) ==
    IF i > Len(rs) THEN Return(m)
    ELSE LET rule == rs[i]
             field_tag == SliceTo(rule, 3)
             field == get_field(marc, field_tag)
             subfields == Range(SliceFrom(rule, 3))
             checked == _mapping_subfields(marc, rule, field_tag, SetIter(subfields, ord))
         IN  IF field.raised THEN field
             ELSE IF field.isNone
             THEN Raise("Exception", << "unknown MARC field in mapping rule: ", rule >>)
             ELSE IF checked.raised THEN checked
             ELSE _mapping_rules(marc, rs, i + 1,
                                 DictSet(m, field_tag, OrNone(subfields)), ord)

NoneRules == [isNone |-> TRUE, list |-> << >>]
RuleList(l) == [isNone |-> FALSE, list |-> l]

\* Mutant of _mapping: only rules=None selects every field, the empty list
\* compiles to the empty mapping.
_mapping_none_only(rs, ord) ==
    LET marc == from_avram
        effective == IF rs.isNone
                     THEN [i \in 1..Len(marc) |-> marc[i].tag]
                     ELSE rs.list
    IN  _mapping_rules(marc, effective, 1, << >>, ord)

\* _mapping(rules): no rules means every field tag of the schema.
_mapping(rs, ord) ==
    LET marc == from_avram
        effective == IF rs.isNone \/ Len(rs.list) = 0
                     THEN [i \in 1..Len(marc) |-> marc[i].tag]
                     ELSE rs.list
    IN  _mapping_rules(marc, effective, 1, << >>, ord)

\* _columns(mapping): one column per None-mapped tag, one per requested code.
RECURSIVE _columns_from(_, _, _)
_columns_from(m, i, ord) ==
    IF i > Len(m) THEN << >>
    ELSE LET field_tag == m[i].k
             subfields == m[i].v
             codes == SetIter(subfields.codes, ord)
         IN  (IF subfields.isNone
              THEN << << "F" >> \o field_tag >>
              ELSE [j \in 1..Len(codes) |-> << "F" >> \o field_tag \o << codes[j] >>])
             \o _columns_from(m, i + 1, ord)

_columns(m, ord) == _columns_from(m, 1, ord)

\* str() of a Subfield object: the class defines no __str__, so it is the
\* default object representation, never a one-character code.
Subfield_str(sf) == << "<", "marctable.marc.Subfield object at 0x", ">" >>

pyarrow_str == "string"
pyarrow_list_of_str == "list<string>"

Col(name, type) == [name |-> name, type |-> type]

\* Mutant of _parquet_subfield_cols: the type of a subfield column follows
\* the repeatable flag of the field, not of the subfield.
_parquet_subfield_cols_field_flag(marc, field_tag, codes) ==
    [j \in 1..Len(codes) |->
        LET sf == get_subfield(marc, field_tag, codes[j])
        IN  IF get_field(marc, field_tag).value.repeatable
            THEN Col(<< "F" >> \o field_tag \o Subfield_str(sf.value), pyarrow_list_of_str)
            ELSE Col(<< "F" >> \o field_tag \o Subfield_str(sf.value), pyarrow_str)]

\* The columns of one subfield-level mapping entry: the name is formatted
\* from the Subfield object sf that the lookup returned.
_parquet_subfield_cols(marc, field_tag, codes) ==
    [j \in 1..Len(codes) |->
        LET sf == get_subfield(marc, field_tag, codes[j])
        IN  IF ~sf.raised /\ ~sf.isNone /\ sf.value.repeatable
            THEN Col(<< "F" >> \o field_tag \o Subfield_str(sf.value), pyarrow_list_of_str)
            ELSE Col(<< "F" >> \o field_tag \o Subfield_str(sf.value), pyarrow_str)]

RECURSIVE _parquet_cols_from(_, _, _, _)
_parquet_cols_from(marc, m, i, ord) ==
    IF i > Len(m) THEN << >>
    ELSE LET field_tag == m[i].k
             subfields == m[i].v
         IN  (IF subfields.isNone
              THEN IF get_field(marc, field_tag).value.repeatable
                   THEN << Col(<< "F" >> \o field_tag, pyarrow_list_of_str) >>
                   ELSE << Col(<< "F" >> \o field_tag, pyarrow_str) >>
              ELSE _parquet_subfield_cols(marc, field_tag, SetIter(subfields.codes, ord)))
             \o _parquet_cols_from(marc, m, i + 1, ord)

\* _make_parquet_schema(rules): _mapping's exception propagates.
_make_parquet_schema(rs, ord) ==
    LET marc == from_avram
        m == _mapping(rs, ord)
    IN  IF m.raised THEN m ELSE Return(_parquet_cols_from(marc, m.value, 1, ord))

----------------------------------------------------------------------------
(* Decoded records (pymarc) and their projection (records_iter's body).    *)

\* None, or a string.
NoneData == [isNone |-> TRUE, s |-> << >>]
Data(s) == [isNone |-> FALSE, s |-> s]

\* A pymarc field: a control field has data, a data field has subfields.
ControlField(tag, data) == [tag |-> tag, control |-> TRUE, data |-> data, subfields |-> << >>]
DataField(tag, subfields) == [tag |-> tag, control |-> FALSE, data |-> NoneData, subfields |-> subfields]
SF(code, value) == [code |-> code, value |-> value]

is_control_field(field) == field.control

\* " ".join(values)
RECURSIVE Join(_)
Join(values) ==
    IF values = << >> THEN << >>
    ELSE IF Len(values) = 1 THEN values[1]
    ELSE values[1] \o << " " >> \o Join(Tail(values))

_stringify_field(field) ==
    IF is_control_field(field)
    THEN IF field.data.isNone THEN << >> ELSE field.data.s
    ELSE Join([i \in 1..Len(field.subfields) |-> field.subfields[i].value])

\* A row value (ListOrString): a str, or a list of str.
Str(s) == [isList |-> FALSE, items |-> << s >>]
List(l) == [isList |-> TRUE, items |-> l]

\* Mutant of RowGetOrEmptyList: a fresh list every time, what the row
\* already holds is forgotten.
RowGet_fresh_list(r, key) == List(<< >>)

\* r.get(key, [])
RowGetOrEmptyList(r, key) == IF DictHas(r, key) THEN DictVal(r, key) ELSE List(<< >>)

\* Mutant of project_subfields: list or scalar follows the repeatable flag
\* of the field, not of the subfield.
RECURSIVE project_subfields_field_flag(_, _, _, _, _)
project_subfields_field_flag(marc, field, subfields, j, r) ==
    IF j > Len(field.subfields) THEN Return(r)
    ELSE LET sf == field.subfields[j]
             key == << "F" >> \o field.tag \o << sf.code >>
             def == get_field(marc, field.tag)
             value == RowGetOrEmptyList(r, key)
         IN  IF sf.code \notin subfields.codes
             THEN project_subfields_field_flag(marc, field, subfields, j + 1, r)
             ELSE IF def.raised THEN def
             ELSE IF def.value.repeatable
             THEN project_subfields_field_flag(marc, field, subfields, j + 1,
                      DictSet(r, key, List(Append(value.items, sf.value))))
             ELSE project_subfields_field_flag(marc, field, subfields, j + 1,
                      DictSet(r, key, Str(sf.value)))

\* Mutant of project_subfields: the column key leaves the subfield code out,
\* so the subfields of one field share a key.
RECURSIVE project_subfields_key_without_code(_, _, _, _, _)
project_subfields_key_without_code(marc, field, subfields, j, r) ==
    IF j > Len(field.subfields) THEN Return(r)
    ELSE LET sf == field.subfields[j]
             key == << "F" >> \o field.tag
             def == get_subfield(marc, field.tag, sf.code)
             value == RowGetOrEmptyList(r, key)
         IN  IF sf.code \notin subfields.codes
             THEN project_subfields_key_without_code(marc, field, subfields, j + 1, r)
             ELSE IF def.raised THEN def
             ELSE IF def.value.repeatable
             THEN IF ~value.isList
                  THEN Raise("AssertionError",
                             << "Repeatable field contains a string instead of list" >>)
                  ELSE project_subfields_key_without_code(marc, field, subfields, j + 1,
                           DictSet(r, key, List(Append(value.items, sf.value))))
             ELSE project_subfields_key_without_code(marc, field, subfields, j + 1,
                      DictSet(r, key, Str(sf.value)))

\* Mutant of project_subfields: the schema is asked for the subfield before
\* the code is tested against the requested set.
RECURSIVE project_subfields_lookup_first(_, _, _, _, _)
project_subfields_lookup_first(marc, field, subfields, j, r) ==
    IF j > Len(field.subfields) THEN Return(r)
    ELSE LET sf == field.subfields[j]
             key == << "F" >> \o field.tag \o << sf.code >>
             def == get_subfield(marc, field.tag, sf.code)
             value == RowGetOrEmptyList(r, key)
         IN  IF def.raised THEN def
             ELSE IF sf.code \notin subfields.codes
             THEN project_subfields_lookup_first(marc, field, subfields, j + 1, r)
             ELSE IF def.value.repeatable
             THEN IF ~value.isList
                  THEN Raise("AssertionError",
                             << "Repeatable field contains a string instead of list" >>)
                  ELSE project_subfields_lookup_first(marc, field, subfields, j + 1,
                           DictSet(r, key, List(Append(value.items, sf.value))))
             ELSE project_subfields_lookup_first(marc, field, subfields, j + 1,
                      DictSet(r, key, Str(sf.value)))

\* The loop over field.subfields, from subfield j on, with the row r so far.
RECURSIVE project_subfields(_, _, _, _, _)
project_subfields(marc, field, subfields, j, r) ==
    IF j > Len(field.subfields) THEN Return(r)
    ELSE LET sf == field.subfields[j]
             key == << "F" >> \o field.tag \o << sf.code >>
             def == get_subfield(marc, field.tag, sf.code)
             value == RowGetOrEmptyList(r, key)
         IN  IF sf.code \notin subfields.codes
             THEN project_subfields(marc, field, subfields, j + 1, r)
             ELSE IF def.raised THEN def
             ELSE IF def.value.repeatable
             THEN IF ~value.isList
                  THEN Raise("AssertionError",
                             << "Repeatable field contains a string instead of list" >>)
                  ELSE project_subfields(marc, field, subfields, j + 1,
                           DictSet(r, key, List(Append(value.items, sf.value))))
             ELSE project_subfields(marc, field, subfields, j + 1,
                      DictSet(r, key, Str(sf.value)))

\* Mutant of project_field: a non-repeatable field keeps its first
\* occurrence instead of its last.
project_field_first_wins(marc, field, r) ==
    LET key == << "F" >> \o field.tag
        def == get_field(marc, field.tag)
        lst == RowGetOrEmptyList(r, key)
    IN  IF def.raised THEN def
        ELSE IF def.value.repeatable
        THEN Return(DictSet(r, key, List(Append(lst.items, _stringify_field(field)))))
        ELSE IF DictHas(r, key) THEN Return(r)
        ELSE Return(DictSet(r, key, Str(_stringify_field(field))))

\* One field of the record whose tag is mapped to None.
project_field(marc, field, r) ==
    LET key == << "F" >> \o field.tag
        def == get_field(marc, field.tag)
        lst == RowGetOrEmptyList(r, key)
    IN  IF def.raised THEN def
        ELSE IF def.value.repeatable
        THEN IF ~lst.isList
             THEN Raise("AssertionError",
                        << "Repeatable field contains a string instead of a list" >>)
             ELSE Return(DictSet(r, key, List(Append(lst.items, _stringify_field(field)))))
        ELSE Return(DictSet(r, key, Str(_stringify_field(field))))

\* The loop over record.fields, from field i on, with the row r so far.
RECURSIVE project_fields(_, _, _, _, _)
project_fields(marc, m, fields, i, r) ==
    IF i > Len(fields) THEN Return(r)
    ELSE LET field == fields[i]
             subfields == DictVal(m, field.tag)
             step == IF subfields.isNone
                     THEN project_field(marc, field, r)
                     ELSE project_subfields(marc, field, subfields, 1, r)
         IN  IF ~DictHas(m, field.tag)
             THEN project_fields(marc, m, fields, i + 1, r)
             ELSE IF step.raised THEN step
             ELSE project_fields(marc, m, fields, i + 1, step.value)

\* The row r of one decoded record.
project(record, m) == project_fields(from_avram, m, record.fields, 1, << >>)

----------------------------------------------------------------------------
(* The sinks: what the entry point does with one yielded batch.            *)

NullCell == [null |-> TRUE, isList |-> FALSE, items |-> << >>]
Cell(v) == [null |-> FALSE, isList |-> v.isList, items |-> v.items]

\* The cells of one row under a list of column names: absent keys are null,
\* keys that are no column are dropped.
RowCells(r, names) ==
    [j \in 1..Len(names) |-> IF DictHas(r, names[j]) THEN Cell(DictVal(r, names[j])) ELSE NullCell]

\* Mutant of DataFrame: `columns=columns` is dropped, the columns are the
\* keys found in the batch, in order of first appearance.
RECURSIVE FirstSeen(_, _)
FirstSeen(ks, seen) ==
    IF ks = << >> THEN << >>
    ELSE IF Head(ks) \in seen THEN FirstSeen(Tail(ks), seen)
    ELSE << Head(ks) >> \o FirstSeen(Tail(ks), seen \cup { Head(ks) })
DataFrame_inferred_columns(records_batch, cols) ==
    LET keys == FirstSeen(Flatten([i \in 1..Len(records_batch) |->
                    [j \in 1..Len(records_batch[i]) |-> records_batch[i][j].k]]), {})
    IN  [columns |-> keys,
         data |-> [i \in 1..Len(records_batch) |-> RowCells(records_batch[i], keys)]]

\* DataFrame.from_records(records_batch, columns=columns)
DataFrame(records_batch, cols) ==
    [columns |-> cols,
     data |-> [i \in 1..Len(records_batch) |-> RowCells(records_batch[i], cols)]]

\* Mutant of df_to_csv: header=True, every batch writes the header.
df_to_csv_always_header(df, header) ==
    << [kind |-> "header", body |-> df.columns] >>
    \o [i \in 1..Len(df.data) |-> [kind |-> "record", body |-> df.data[i]]]

\* df.to_csv(csv_output, header=first_batch, index=False)
df_to_csv(df, header) ==
    (IF header THEN << [kind |-> "header", body |-> df.columns] >> ELSE << >>)
    \o [i \in 1..Len(df.data) |-> [kind |-> "record", body |-> df.data[i]]]

\* jsonl_output.write(json.dumps(record) + newline) for each record
write_jsonl(records) ==
    [i \in 1..Len(records) |-> [kind |-> "json", body |-> records[i]]]

\* pyarrow.Table.from_pylist(records_batch, schema); writer.write_table(table)
write_table(records_batch, sch) ==
    LET names == [j \in 1..Len(sch) |-> sch[j].name]
    IN  << [kind |-> "row_group",
            body |-> [columns |-> names,
                      data |-> [i \in 1..Len(records_batch) |->
                                   RowCells(records_batch[i], names)]]] >>

----------------------------------------------------------------------------
(* Inputs.                                                                 *)

Sinks == { "csv", "jsonl", "parquet", "dataframe" }

\* The subfield codes that occur in the rules; a process iterates a set of
\* them in some order of its own.
CodeAlphabet == { "a", "n", "v", "z" }
SetOrders == { o \in [1..Cardinality(CodeAlphabet) -> CodeAlphabet] : Range(o) = CodeAlphabet }

\* Rule strings: whole fields, subfields, a repeated code, an unknown tag,
\* an unknown code, two unknown codes, a code under a control field.
RulePool ==
    { T245, T245 \o << "a" >>, T245 \o << "a", "n", "a" >>,
      T650, T650 \o << "v" >>, T650 \o << "v", "a" >>, T001,
      T999 \o << "a" >>, T245 \o << "a", "z" >>, T650 \o << "n", "z" >> }

RuleLists == { NoneRules } \cup { RuleList(l) : l \in SeqsUpTo(RulePool, MaxRules) }

\* Decodable records and the reader's None for an undecodable one.
NoneRecord == [isNone |-> TRUE, fields |-> << >>]
Record(fields) == [isNone |-> FALSE, fields |-> fields]

FieldPool ==
    { ControlField(T001, Data(<< "c1" >>)),
      ControlField(T001, NoneData),
      DataField(T245, << SF("a", << "T1" >>) >>),
      DataField(T245, << SF("a", << "T2" >>), SF("z", << "Z1" >>),
                         SF("n", << "N1" >>), SF("n", << "N2" >>) >>),
      DataField(T650, << SF("a", << "S1" >>), SF("v", << "V1" >>) >>),
      DataField(T650, << SF("v", << "V2" >>), SF("a", << "S2" >>), SF("v", << "V3" >>) >>),
      DataField(T999, << SF("a", << "X1" >>) >>) }

Records == { Record(fs) : fs \in SeqsUpTo(FieldPool, MaxFields) }

\* A record like the first of the test data: a title and two subjects.
SampleRecord ==
    Record(<< ControlField(T001, Data(<< "c1" >>)),
              DataField(T245, << SF("a", << "Leak testing" >>), SF("c", << "editors" >>) >>),
              DataField(T650, << SF("a", << "Leak detectors." >>) >>),
              DataField(T650, << SF("a", << "Gas leakage." >>), SF("v", << "V1" >>) >>) >>)

RecA == Record(<< DataField(T245, << SF("a", << "T1" >>) >>) >>)
RecB == Record(<< DataField(T650, << SF("a", << "S1" >>) >>) >>)

Input(s, rs, b, in) == [sink |-> s, rules |-> rs, batch |-> b, marc_input |-> in]

\* to_dataframe always passes batch=0.
BatchesOf(s, B) == IF s = "dataframe" THEN { 0 } ELSE B

\* Many rule lists, one stream.
CompileInputs ==
    { Input(s, rs, MaxBatch, << SampleRecord, NoneRecord >>) :
        s \in Sinks \ { "dataframe" }, rs \in RuleLists }
    \cup { Input("dataframe", rs, 0, << SampleRecord >>) : rs \in RuleLists }

ProjectRuleLists ==
    { NoneRules,
      RuleList(<< T245 \o << "a", "n" >> >>),
      RuleList(<< T650 \o << "a", "v" >> >>),
      RuleList(<< T245, T650 \o << "a" >> >>),
      RuleList(<< T650, T245 \o << "n" >> >>) }

\* Many records, each alone in its stream.
ProjectInputs ==
    { Input("jsonl", rs, 0, << rec >>) : rs \in ProjectRuleLists, rec \in Records }

\* Many streams and batch sizes, one rule list.
BatchInputs ==
    UNION { { Input(s, RuleList(<< T245 >>), b, in) :
                b \in BatchesOf(s, 0..MaxBatch),
                in \in SeqsUpTo({ RecA, RecB, NoneRecord }, MaxRecords) } : s \in Sinks }

\* Rule lists of three rules: the rules of test_to_parquet_with_rules, and a
\* tag mentioned again after another tag.
ExampleRuleLists ==
    { RuleList(<< T001, T245, T650 \o << "v" >> >>),
      RuleList(<< T245 \o << "a" >>, T650, T245 \o << "n" >> >>) }

ExampleInputs ==
    { Input(s, rs, MaxBatch, << SampleRecord, NoneRecord >>) :
        s \in Sinks \ { "dataframe" }, rs \in ExampleRuleLists }

Inputs == CompileInputs \cup ProjectInputs \cup BatchInputs \cup ExampleInputs

----------------------------------------------------------------------------
(* The state machine.                                                      *)

NoError == [raised |-> FALSE, type |-> "", msg |-> << >>]

Init ==
    /\ \E in \in Inputs :
          /\ sink = in.sink
          /\ rules = in.rules
          /\ batch = in.batch
          /\ marc_input = in.marc_input
    /\ pc = "call"
    /\ pos = 0
    /\ mapping = << >>
    /\ columns = << >>
    /\ frames = << >>
    /\ schema = << >>
    /\ rows = << >>
    /\ emitted = << >>
    /\ output = << >>
    /\ first_batch = TRUE
    /\ error = NoError

\* dataframe_iter up to its loop: columns = _columns(_mapping(rules)).
DataframeIter ==
    /\ pc = "call"
    /\ sink \in { "csv", "dataframe" }
    /\ \E ord \in SetOrders :
          LET m == _mapping(rules, ord)
          IN  IF m.raised
              THEN /\ pc' = "raised"
                   /\ error' = m
                   /\ columns' = columns
              ELSE /\ pc' = "iter"
                   /\ error' = error
                   /\ columns' = _columns(m.value, ord)
    /\ UNCHANGED << sink, rules, batch, marc_input, pos, mapping, frames, schema,
                    rows, emitted, output, first_batch >>

\* to_parquet up to its loop: the schema, then the writer.
ToParquet ==
    /\ pc = "call"
    /\ sink = "parquet"
    /\ \E ord \in SetOrders :
          LET sch == _make_parquet_schema(rules, ord)
          IN  IF sch.raised
              THEN /\ pc' = "raised"
                   /\ error' = sch
                   /\ schema' = schema
              ELSE /\ pc' = "iter"
                   /\ error' = error
                   /\ schema' = sch.value
    /\ UNCHANGED << sink, rules, batch, marc_input, pos, mapping, columns, frames,
                    rows, emitted, output, first_batch >>

\* Mutant of RecordsIter: the rules are not compiled before the loop over the
\* reader starts.
RecordsIter_without_compile ==
    /\ \/ pc = "iter"
       \/ pc = "call" /\ sink = "jsonl"
    /\ pc' = "loop"
    /\ rows' = << >>
    /\ UNCHANGED << sink, rules, batch, marc_input, pos, mapping, columns, frames,
                    schema, emitted, output, first_batch, error >>

\* records_iter up to its loop: mapping = _mapping(rules); rows = [].
RecordsIter ==
    /\ \/ pc = "iter"
       \/ pc = "call" /\ sink = "jsonl"
    /\ \E ord \in SetOrders :
          LET m == _mapping(rules, ord)
          IN  IF m.raised
              THEN /\ pc' = "raised"
                   /\ error' = m
                   /\ mapping' = mapping
              ELSE /\ pc' = "loop"
                   /\ error' = error
                   /\ mapping' = m.value
    /\ rows' = << >>
    /\ UNCHANGED << sink, rules, batch, marc_input, pos, columns, frames, schema,
                    emitted, output, first_batch >>

\* Mutant of is_skipped: the None check is missing.
is_skipped_never(record) == FALSE

\* `if record is None: continue`
is_skipped(record) == record.isNone

\* `batch > 0 and len(rows) == batch`
batch_ready(b, rs) == b > 0 /\ Len(rs) = b

\* One iteration of `for record in reader`, up to the yield if the batch is full.
NextRecord ==
    /\ pc = "loop"
    /\ pos < Len(marc_input)
    /\ pos' = pos + 1
    /\ LET record == marc_input[pos + 1]
           r == project(record, mapping)
       IN  IF is_skipped(record)
           THEN UNCHANGED << pc, rows, emitted, error >>
           ELSE IF r.raised
           THEN /\ pc' = "raised"
                /\ error' = r
                /\ UNCHANGED << rows, emitted >>
           ELSE /\ rows' = Append(rows, r.value)
                /\ error' = error
                /\ IF batch_ready(batch, rows')
                   THEN /\ pc' = "yield"
                        /\ emitted' = Append(emitted, rows')
                   ELSE UNCHANGED << pc, emitted >>
    /\ UNCHANGED << sink, rules, batch, marc_input, mapping, columns, frames, schema,
                    output, first_batch >>

\* The reader is exhausted: yield the remaining rows, if any.
EndOfInput ==
    /\ pc = "loop"
    /\ pos = Len(marc_input)
    /\ IF Len(rows) > 0
       THEN /\ pc' = "yield_last"
            /\ emitted' = Append(emitted, rows)
       ELSE /\ pc' = "exhausted"
            /\ emitted' = emitted
    /\ UNCHANGED << sink, rules, batch, marc_input, pos, mapping, columns, frames,
                    schema, rows, output, first_batch, error >>

\* Mutant of rows_after_yield: the rows are not reset after a yield.
rows_after_yield_keep(in_loop, rs) == rs

\* records_iter's rows when it resumes after a yield: `rows = []` follows the
\* yield inside the loop, nothing follows the last one.
rows_after_yield(in_loop, rs) == IF in_loop THEN << >> ELSE rs

\* The body of the entry point's loop for the batch just yielded, and the
\* resumption of records_iter after its yield (rows = [] inside the loop).
Consume ==
    /\ pc \in { "yield", "yield_last" }
    /\ LET records_batch == emitted[Len(emitted)]
           df == DataFrame(records_batch, columns)
       IN  CASE sink = "csv" ->
                  /\ frames' = Append(frames, df)
                  /\ output' = output \o df_to_csv(df, first_batch)
                  /\ first_batch' = FALSE
             [] sink = "dataframe" ->
                  /\ frames' = Append(frames, df)
                  /\ output' = Append(output, [kind |-> "dataframe", body |-> df])
                  /\ first_batch' = first_batch
             [] sink = "jsonl" ->
                  /\ frames' = frames
                  /\ output' = output \o write_jsonl(records_batch)
                  /\ first_batch' = first_batch
             [] sink = "parquet" ->
                  /\ frames' = frames
                  /\ output' = output \o write_table(records_batch, schema)
                  /\ first_batch' = first_batch
    /\ pc' = IF sink = "dataframe" THEN "done"
             ELSE IF pc = "yield" THEN "loop" ELSE "exhausted"
    /\ rows' = IF sink = "dataframe" THEN rows ELSE rows_after_yield(pc = "yield", rows)
    /\ UNCHANGED << sink, rules, batch, marc_input, pos, mapping, columns, schema,
                    emitted, error >>

\* The generator is exhausted: the entry point's loop ends; to_dataframe's
\* next() finds no first batch.
Finish ==
    /\ pc = "exhausted"
    /\ IF sink = "dataframe"
       THEN /\ pc' = "raised"
            /\ error' = Raise("StopIteration", << >>)
            /\ output' = output
       ELSE /\ pc' = "done"
            /\ error' = error
            /\ output' = IF sink = "parquet"
                         THEN Append(output, [kind |-> "close", body |-> << >>])
                         ELSE output
    /\ UNCHANGED << sink, rules, batch, marc_input, pos, mapping, columns, frames,
                    schema, rows, emitted, first_batch >>

Next ==
    \/ DataframeIter
    \/ ToParquet
    \/ RecordsIter
    \/ NextRecord
    \/ EndOfInput
    \/ Consume
    \/ Finish

Spec == Init /\ [][Next]_vars

----------------------------------------------------------------------------
(* Properties.                                                             *)

\* The decodable records among the first k reader items, in input order.
Decodable(k) == SelectSeq(SubSeq(marc_input, 1, k), LAMBDA rec : ~rec.isNone)

\* Their rows under the compiled mapping, in input order.
Projected(k) ==
    LET d == Decodable(k) IN [i \in 1..Len(d) |-> project(d[i], mapping).value]

\* records_iter has compiled its mapping and has not raised.
Iterating == pc \in { "loop", "yield", "yield_last", "exhausted", "done" }

\* records_iter has run to its end (the reader is exhausted).
Exhausted ==
    \/ pc = "exhausted"
    \/ pc = "done"
    \/ pc = "raised" /\ error.type = "StopIteration"

Ceil(n, b) == (n + b - 1) \div b

\* C1: with n decodable records, batch size B > 0 gives ceil(n / B) batches,
\* each of B rows except possibly the last, and B = 0 gives exactly one batch
\* of all n rows, for every n, n = 0 included.
C1_BatchCount ==
    Exhausted =>
        LET n == Len(Decodable(Len(marc_input)))
        IN  IF batch > 0
            THEN /\ Len(emitted) = Ceil(n, batch)
                 /\ \A i \in 1..Len(emitted) :
                       /\ i < Len(emitted) => Len(emitted[i]) = batch
                       /\ Len(emitted[i]) \in 1..batch
            ELSE /\ Len(emitted) = 1
                 /\ Len(emitted[1]) = n

\* The rows the sink has written, in order.
WrittenRows ==
    Flatten([i \in 1..Len(output) |->
        CASE output[i].kind = "record" -> << output[i].body >>
          [] output[i].kind = "json" -> << output[i].body >>
          [] output[i].kind = "row_group" -> output[i].body.data
          [] output[i].kind = "dataframe" -> output[i].body.data
          [] OTHER -> << >>])

C10_SkipStep ==
    [][ (pc = "loop" /\ pos < Len(marc_input) /\ marc_input[pos + 1].isNone)
            => /\ pc' = "loop"
               /\ pos' = pos + 1
               /\ rows' = rows
               /\ emitted' = emitted
               /\ error' = error ]_vars

C10_SkipNone ==
    /\ C10_SkipStep
    /\ [](pc \in { "exhausted", "done" } =>
             Len(Flatten(emitted)) = Len(Decodable(Len(marc_input))))

\* A finished export whose input held an undecodable record before a
\* decodable one, with the latter's row emitted.
C10_Witness ==
    /\ pc = "done"
    /\ error = NoError
    /\ \E i \in 1..Len(marc_input) : \E j \in 1..Len(marc_input) :
          i < j /\ marc_input[i].isNone /\ ~marc_input[j].isNone
    /\ Len(Flatten(emitted)) >= 1

\* The tag and the codes a rule string names, and the schema's verdict on
\* them, read off the schema document.
RuleTag(rule) == SubSeq(rule, 1, 3)
RuleCodes(rule) == { rule[i] : i \in 4..Len(rule) }
SchemaTags == { from_avram[i].tag : i \in 1..Len(from_avram) }
SchemaCodes(tag) ==
    UNION { { from_avram[i].subfields[j].code : j \in 1..Len(from_avram[i].subfields) } :
              i \in { i \in 1..Len(from_avram) : from_avram[i].tag = tag } }
ValidRule(rule) ==
    /\ Len(rule) >= 3
    /\ RuleTag(rule) \in SchemaTags
    /\ RuleCodes(rule) \subseteq SchemaCodes(RuleTag(rule))

\* The rules given are a non-empty list of valid rule strings.
ValidRules == ~rules.isNone /\ Len(rules.list) >= 1 /\ \A i \in 1..Len(rules.list) : ValidRule(rules.list[i])

RulesOf(tag) == { i \in 1..Len(rules.list) : RuleTag(rules.list[i]) = tag }
LastRuleOf(tag) == rules.list[CHOOSE i \in RulesOf(tag) : \A j \in RulesOf(tag) : j <= i]
CodesGivenFor(tag) == UNION { RuleCodes(rules.list[i]) : i \in RulesOf(tag) }

\* C3 as stated: for valid rules the keys of the mapping are exactly the
\* distinct tags mentioned, and a tag's value is None iff no subfield code was
\* given for it, otherwise the set of the codes given for it.
C3_KeysAndCodesGiven ==
    (ValidRules /\ Iterating) =>
        /\ DictKeys(mapping) = { RuleTag(rules.list[i]) : i \in 1..Len(rules.list) }
        /\ \A t \in DictKeys(mapping) :
              /\ DictVal(mapping, t).isNone <=> CodesGivenFor(t) = {}
              /\ ~DictVal(mapping, t).isNone => DictVal(mapping, t).codes = CodesGivenFor(t)

\* C3 amended: for a non-empty list of valid rules the keys of the mapping
\* are exactly the distinct tags mentioned, each once, and a tag's value is
\* None iff the last rule that mentions the tag gives no subfield code,
\* otherwise the set of the codes of that last rule.
C3_KeysAndLastRule ==
    (ValidRules /\ Iterating) =>
        /\ DictKeys(mapping) = { RuleTag(rules.list[i]) : i \in 1..Len(rules.list) }
        /\ Cardinality(DictKeys(mapping)) = Len(mapping)
        /\ \A t \in DictKeys(mapping) :
              /\ DictVal(mapping, t).isNone <=> Len(LastRuleOf(t)) = 3
              /\ ~DictVal(mapping, t).isNone =>
                    /\ DictVal(mapping, t).codes = RuleCodes(LastRuleOf(t))
                    /\ DictVal(mapping, t).codes # {}

\* A mapping compiled from two rules for one tag, the last of which repeats
\* a code.
C3_Witness ==
    /\ ValidRules /\ Iterating
    /\ \E t \in DictKeys(mapping) :
          /\ ~DictVal(mapping, t).isNone
          /\ Cardinality(RulesOf(t)) = 2
          /\ Len(LastRuleOf(t)) > 3 + Cardinality(RuleCodes(LastRuleOf(t)))

\* The first rule of the list that names an unknown tag or an unknown code.
HasBadRule == ~rules.isNone /\ \E i \in 1..Len(rules.list) : ~ValidRule(rules.list[i])
FirstBadRule ==
    rules.list[CHOOSE i \in 1..Len(rules.list) :
        /\ ~ValidRule(rules.list[i])
        /\ \A j \in 1..(i - 1) : ValidRule(rules.list[j])]

\* C4: with a rule that names an unknown tag or an unknown code, wherever it
\* stands in the list, the compilation fails with the rule compiler's own
\* error, whose message names the offending rule, and no mapping is left.
C4_InvalidRuleNamesRule ==
    (HasBadRule /\ pc # "call") =>
        /\ pc = "raised"
        /\ mapping = << >> /\ columns = << >> /\ schema = << >>
        /\ error.type = "Exception"
        /\ error.msg[Len(error.msg)] = FirstBadRule

\* C5: with no rules (None or the empty list) the mapping has every field
\* tag of the schema as a key, each mapped to None, in schema order, and the
\* CSV / DataFrame columns are one F<tag> per schema field.
C5_AllFields ==
    (rules.isNone \/ Len(rules.list) = 0) =>
        /\ pc # "raised" \/ error.type = "StopIteration"
        /\ Iterating =>
              mapping = [i \in 1..Len(from_avram) |-> [k |-> from_avram[i].tag, v |-> NoneValue]]
        /\ (Iterating /\ sink \in { "csv", "dataframe" }) =>
              columns = [i \in 1..Len(from_avram) |-> << "F" >> \o from_avram[i].tag]

\* Exports compiled from None and from the empty list.
C5_Witness ==
    /\ Iterating
    /\ sink = "csv"
    /\ Len(columns) = Len(from_avram)
    /\ ~rules.isNone
    /\ Len(rules.list) = 0

\* The column names the convention allows for a mapping: F + tag for a tag
\* mapped to None, F + tag + code for each requested code.
ConventionNames(m) ==
    UNION { IF DictVal(m, t).isNone
            THEN { << "F" >> \o t }
            ELSE { << "F" >> \o t \o << c >> : c \in DictVal(m, t).codes } : t \in DictKeys(m) }

RowKeys(r) == DictKeys(r)
EmittedRows == Flatten(emitted)
SchemaNames == { schema[j].name : j \in 1..Len(schema) }

\* C6: the column names are the same at every sink: CSV header names, row
\* (JSONL) keys and Parquet schema field names are all F + tag or
\* F + tag + code of the mapping, so every row key names a Parquet column.
C6_SameNamesAtEverySink ==
    Iterating =>
        /\ \A i \in 1..Len(EmittedRows) : RowKeys(EmittedRows[i]) \subseteq ConventionNames(mapping)
        /\ sink \in { "csv", "dataframe" } => Range(columns) = ConventionNames(mapping)
        /\ sink = "parquet" =>
              /\ SchemaNames = ConventionNames(mapping)
              /\ \A i \in 1..Len(EmittedRows) : RowKeys(EmittedRows[i]) \subseteq SchemaNames

\* The position of a tag's first mention in the rules in force.
RulesInForce ==
    IF rules.isNone \/ Len(rules.list) = 0
    THEN [i \in 1..Len(from_avram) |-> from_avram[i].tag]
    ELSE rules.list
FirstMention(tag) ==
    CHOOSE i \in 1..Len(RulesInForce) :
        /\ RuleTag(RulesInForce[i]) = tag
        /\ \A j \in 1..(i - 1) : RuleTag(RulesInForce[j]) # tag
ColumnTag(name) == SubSeq(name, 2, 4)

RECURSIVE ColumnCount(_, _)
ColumnCount(m, i) ==
    IF i > Len(m) THEN 0
    ELSE (IF m[i].v.isNone THEN 1 ELSE Cardinality(m[i].v.codes)) + ColumnCount(m, i + 1)

\* C7: every batch table of the CSV / DataFrame export has exactly the
\* columns of the mapping, F<tag> per None-mapped tag and F<tag><code> per
\* requested code, none twice, tags in order of first mention, populated or
\* not; their number is the number of None-mapped tags plus the sizes of the
\* code sets; every row of the table has one cell per column.
C7_FrameColumns ==
    \A f \in 1..Len(frames) :
        LET cols == frames[f].columns
        IN  /\ Range(cols) = ConventionNames(mapping)
            /\ Cardinality(Range(cols)) = Len(cols)
            /\ Len(cols) = ColumnCount(mapping, 1)
            /\ \A i \in 1..Len(cols) : \A j \in 1..Len(cols) :
                  i < j => FirstMention(ColumnTag(cols[i])) <= FirstMention(ColumnTag(cols[j]))
            /\ \A i \in 1..Len(frames[f].data) : Len(frames[f].data[i]) = Len(cols)

\* A table with a whole-field column, two subfield columns of one tag, and
\* a column that none of its rows populates.
C7_Witness ==
    \E f \in 1..Len(frames) :
        LET cols == frames[f].columns
        IN  /\ \E j \in 1..Len(cols) : Len(cols[j]) = 4
            /\ \E i \in 1..Len(cols) : \E j \in 1..Len(cols) :
                  i # j /\ Len(cols[i]) = 5 /\ Len(cols[j]) = 5 /\ ColumnTag(cols[i]) = ColumnTag(cols[j])
            /\ \E j \in 1..Len(cols) :
                  /\ Len(frames[f].data) >= 1
                  /\ \A i \in 1..Len(frames[f].data) : frames[f].data[i][j].null

\* What a record holds, and what the schema says, read off directly.
FieldsOf(rec, tag) == SelectSeq(rec.fields, LAMBDA f : f.tag = tag)
ValuesIn(field, code) ==
    LET hit == SelectSeq(field.subfields, LAMBDA sf : sf.code = code)
    IN  [i \in 1..Len(hit) |-> hit[i].value]
ValuesOf(rec, tag, code) ==
    LET fs == FieldsOf(rec, tag) IN Flatten([i \in 1..Len(fs) |-> ValuesIn(fs[i], code)])
FieldRepeatable(tag) ==
    \E i \in 1..Len(from_avram) : from_avram[i].tag = tag /\ from_avram[i].repeatable
SubfieldRepeatable(tag, code) ==
    \E i \in 1..Len(from_avram) :
        /\ from_avram[i].tag = tag
        /\ \E j \in 1..Len(from_avram[i].subfields) :
              /\ from_avram[i].subfields[j].code = code
              /\ from_avram[i].subfields[j].repeatable

\* The i-th emitted row and the record it was projected from.
RowOf(i) == EmittedRows[i]
RecordOf(i) == Decodable(pos)[i]

\* C8: a non-repeatable field mapped to None that occurs k >= 1 times in the
\* record gives a scalar at F<tag>, the stringification of its last
\* occurrence; a requested non-repeatable subfield that occurs k >= 1 times
\* over all fields of its tag gives a scalar at F<tag><code>, its last value.
C8_LastWriteWins ==
    Iterating =>
        \A i \in 1..Len(EmittedRows) : \A t \in DictKeys(mapping) :
            LET occ == FieldsOf(RecordOf(i), t)
            IN  IF DictVal(mapping, t).isNone
                THEN (~FieldRepeatable(t) /\ Len(occ) >= 1) =>
                        /\ DictHas(RowOf(i), << "F" >> \o t)
                        /\ DictVal(RowOf(i), << "F" >> \o t) = Str(_stringify_field(occ[Len(occ)]))
                ELSE \A c \in DictVal(mapping, t).codes :
                        LET vals == ValuesOf(RecordOf(i), t, c)
                        IN  (~SubfieldRepeatable(t, c) /\ Len(vals) >= 1) =>
                                /\ DictHas(RowOf(i), << "F" >> \o t \o << c >>)
                                /\ DictVal(RowOf(i), << "F" >> \o t \o << c >>) = Str(vals[Len(vals)])

\* A row from a record with two differing occurrences of a non-repeatable
\* field mapped to None, and one from a record with two differing values of a
\* requested non-repeatable subfield.
C8_WitnessField(i) ==
    \E t \in DictKeys(mapping) :
        LET occ == FieldsOf(RecordOf(i), t)
        IN  /\ DictVal(mapping, t).isNone /\ ~FieldRepeatable(t)
            /\ Len(occ) = 2
            /\ _stringify_field(occ[1]) # _stringify_field(occ[2])
C8_WitnessSubfield(i) ==
    \E t \in DictKeys(mapping) :
        /\ ~DictVal(mapping, t).isNone
        /\ \E c \in DictVal(mapping, t).codes :
              LET vals == ValuesOf(RecordOf(i), t, c)
              IN  ~SubfieldRepeatable(t, c) /\ Len(vals) = 2 /\ vals[1] # vals[2]
C8_Witness ==
    /\ Iterating
    /\ \E i \in 1..Len(EmittedRows) : C8_WitnessField(i) \/ C8_WitnessSubfield(i)
    /\ sink = "jsonl" /\ pc = "done"

\* C9: a requested repeatable subfield that occurs N >= 1 times over all
\* fields of its tag gives at F<tag><code> the list of its N values in source
\* order; a repeatable field mapped to None that occurs N >= 1 times gives at
\* F<tag> the list of its N stringifications in record order.
C9_ListInSourceOrder ==
    Iterating =>
        \A i \in 1..Len(EmittedRows) : \A t \in DictKeys(mapping) :
            LET occ == FieldsOf(RecordOf(i), t)
            IN  IF DictVal(mapping, t).isNone
                THEN (FieldRepeatable(t) /\ Len(occ) >= 1) =>
                        /\ DictHas(RowOf(i), << "F" >> \o t)
                        /\ DictVal(RowOf(i), << "F" >> \o t) =
                              List([j \in 1..Len(occ) |-> _stringify_field(occ[j])])
                ELSE \A c \in DictVal(mapping, t).codes :
                        LET vals == ValuesOf(RecordOf(i), t, c)
                        IN  (SubfieldRepeatable(t, c) /\ Len(vals) >= 1) =>
                                /\ DictHas(RowOf(i), << "F" >> \o t \o << c >>)
                                /\ DictVal(RowOf(i), << "F" >> \o t \o << c >>) = List(vals)

\* A row with a list of three values of a repeatable subfield gathered from
\* two fields of its tag.
C9_Witness ==
    /\ Iterating
    /\ \E i \in 1..Len(EmittedRows) : \E t \in DictKeys(mapping) :
          /\ ~DictVal(mapping, t).isNone
          /\ \E c \in DictVal(mapping, t).codes :
                /\ SubfieldRepeatable(t, c)
                /\ Len(FieldsOf(RecordOf(i), t)) = 2
                /\ Len(ValuesOf(RecordOf(i), t, c)) = 3
                /\ DictVal(RowOf(i), << "F" >> \o t \o << c >>).isList

\* Whether the definition behind a column of the convention is repeatable.
ColumnRepeatable(name) ==
    IF Len(name) = 4
    THEN FieldRepeatable(ColumnTag(name))
    ELSE SubfieldRepeatable(ColumnTag(name), name[5])

\* C11: the Parquet schema has exactly one column per column of the compiled
\* mapping, in the order of the mapping's columns, and the type of each is
\* list-of-string if the field definition (whole-field column) or subfield
\* definition (subfield column) behind it is repeatable, string otherwise.
C11_ParquetTypes ==
    (sink = "parquet" /\ Iterating) =>
        /\ Len(schema) = ColumnCount(mapping, 1)
        /\ \E ord \in SetOrders :
              LET cols == _columns(mapping, ord)
              IN  /\ Len(schema) = Len(cols)
                  /\ \A i \in 1..Len(cols) :
                        schema[i].type = IF ColumnRepeatable(cols[i])
                                         THEN pyarrow_list_of_str
                                         ELSE pyarrow_str

\* The schema of rules 001, 245, 650v: three columns, string, string, list.
C11_Witness ==
    /\ sink = "parquet" /\ Iterating
    /\ rules = RuleList(<< T001, T245, T650 \o << "v" >> >>)
    /\ Len(schema) = 3
    /\ schema[1].type = pyarrow_str
    /\ schema[2].type = pyarrow_str
    /\ schema[3].type = pyarrow_list_of_str

\* The rows of the tables to_csv has been handed so far, in order.
FrameRows == Flatten([f \in 1..Len(frames) |-> frames[f].data])

Occurrences(rec, name) ==
    IF Len(name) = 4
    THEN Len(FieldsOf(rec, ColumnTag(name)))
    ELSE Len(ValuesOf(rec, ColumnTag(name), name[5]))

\* C13 as stated: the value at a column of a row is a list iff the
\* definition behind the column is repeatable and it occurred more than once
\* in the record, otherwise a single string.
C13_ListIffRepeatableAndMultiple ==
    Iterating =>
        \A i \in 1..Len(EmittedRows) : \A name \in RowKeys(RowOf(i)) :
            DictVal(RowOf(i), name).isList <=>
                (ColumnRepeatable(name) /\ Occurrences(RecordOf(i), name) >= 2)

\* C13 amended: the value at a column of a row is a list iff the definition
\* behind the column is repeatable, however often it occurred (once gives a
\* list of one), otherwise a single string; a list holds one string per
\* occurrence.
C13_ListIffRepeatable ==
    Iterating =>
        \A i \in 1..Len(EmittedRows) : \A name \in RowKeys(RowOf(i)) :
            LET v == DictVal(RowOf(i), name)
            IN  /\ v.isList <=> ColumnRepeatable(name)
                /\ Occurrences(RecordOf(i), name) >= 1
                /\ Len(v.items) = IF v.isList THEN Occurrences(RecordOf(i), name) ELSE 1

\* A row with a one-element list for a repeatable subfield that occurred
\* once, and a row with a scalar for a non-repeatable subfield that occurred
\* twice.
C13_WitnessSingleList(i) ==
    \E name \in RowKeys(RowOf(i)) :
        /\ Len(name) = 5
        /\ DictVal(RowOf(i), name).isList
        /\ Occurrences(RecordOf(i), name) = 1
C13_WitnessRepeatedScalar(i) ==
    \E name \in RowKeys(RowOf(i)) :
        /\ Len(name) = 5
        /\ ~DictVal(RowOf(i), name).isList
        /\ Occurrences(RecordOf(i), name) = 2
C13_Witness ==
    /\ Iterating
    /\ \E i \in 1..Len(EmittedRows) : C13_WitnessSingleList(i) /\ C13_WitnessRepeatedScalar(i)

\* C14: when a tag is mentioned in several rules its value is that of the
\* last of them alone, its code set or None, nothing of the earlier rules is
\* merged in, and the tag keeps the place of its first mention in the order
\* of the mapping.
C14_LastRuleAlone ==
    (ValidRules /\ Iterating) =>
        /\ \A i \in 1..Len(mapping) : \A j \in 1..Len(mapping) :
              i < j => FirstMention(mapping[i].k) < FirstMention(mapping[j].k)
        /\ \A t \in DictKeys(mapping) :
              Cardinality(RulesOf(t)) >= 2 =>
                  DictVal(mapping, t) =
                      IF RuleCodes(LastRuleOf(t)) = {} THEN NoneValue
                      ELSE Codes(RuleCodes(LastRuleOf(t)))

\* A mapping from rules that mention a tag, then another tag, then the first
\* tag again with other codes: the first tag comes first and holds the codes
\* of its last rule only.
C14_Witness ==
    /\ ValidRules /\ Iterating
    /\ Len(rules.list) = 3
    /\ Len(mapping) = 2
    /\ RulesOf(mapping[1].k) = { 1, 3 }
    /\ RuleCodes(rules.list[1]) # {}
    /\ RuleCodes(rules.list[1]) \cap mapping[1].v.codes = {}
    /\ ~mapping[1].v.isNone

\* C15: with an invalid rule, whatever the entry point, no record is read and
\* nothing is written: the call ends in the compilation's exception with the
\* reader untouched, no batch yielded and the output empty, and no step ever
\* reads or writes.
C15_Untouched ==
    HasBadRule =>
        /\ pc \in { "call", "raised" }
        /\ pos = 0
        /\ rows = << >> /\ emitted = << >> /\ frames = << >>
        /\ output = << >>

C15_FailBeforeReadOrWrite ==
    /\ []C15_Untouched
    /\ [][ HasBadRule => (pos' = pos /\ output' = output /\ pc' = "raised") ]_vars

\* Each entry point, called with a valid rule followed by an invalid one and
\* an input that holds a record, has raised.
C15_Witness ==
    /\ pc = "raised"
    /\ HasBadRule
    /\ Len(rules.list) = 2
    /\ ValidRule(rules.list[1])
    /\ Len(marc_input) >= 1
    /\ ~marc_input[1].isNone

\* The record as far as the projection has walked it: its first fields, the
\* last of them up to one of its subfields.
Prefixes(rec) ==
    { Record(<< >>) } \cup
    UNION { { Record(SubSeq(rec.fields, 1, k - 1) \o
                     << [rec.fields[k] EXCEPT !.subfields = SubSeq(@, 1, j)] >>) :
                j \in 0..Len(rec.fields[k].subfields) } :
            k \in 1..Len(rec.fields) }

\* The row is typed by the schema: a list under every key whose definition
\* is repeatable, a string under every other.
RowTyped(r) == \A name \in RowKeys(r) : DictVal(r, name).isList <=> ColumnRepeatable(name)

\* C16: the repeatability assertions of records_iter never fail: no call ends
\* in an AssertionError, and for every record of the input, at every point of
\* the walk over its fields and subfields, the row built so far holds a list
\* under each key whose definition is repeatable and a string under each
\* other key, so a value about to be appended to is absent or a list.
C16_AssertionsHold ==
    /\ error.type # "AssertionError"
    /\ Iterating =>
          \A k \in 1..Len(marc_input) :
              ~marc_input[k].isNone =>
                  \A p \in Prefixes(marc_input[k]) :
                      LET res == project(p, mapping)
                      IN  /\ ~(res.raised /\ res.type = "AssertionError")
                          /\ ~res.raised => RowTyped(res.value)

\* A row where a second value was appended to the list of a repeatable
\* subfield, next to the string of a non-repeatable one.
C16_Witness ==
    /\ pc = "done"
    /\ \E i \in 1..Len(EmittedRows) :
          /\ \E name \in RowKeys(RowOf(i)) :
                /\ DictVal(RowOf(i), name).isList
                /\ Len(DictVal(RowOf(i), name).items) >= 2
          /\ \E name \in RowKeys(RowOf(i)) :
                /\ ~DictVal(RowOf(i), name).isList
                /\ Len(name) = 5

SchemaErrors == { "SchemaFieldError", "SchemaSubfieldError" }

\* C17: once the rules have compiled, no projection raises an unknown-field
\* or unknown-subfield error, whatever tags and codes the records carry: such
\* an error is only ever the compilation's, raised before a record is read,
\* and the projection of every record of the input with the compiled mapping
\* returns a row.
C17_NoSchemaErrorOnceCompiled ==
    /\ error.type \in SchemaErrors => (HasBadRule /\ ~Iterating /\ pos = 0)
    /\ Iterating =>
          \A k \in 1..Len(marc_input) :
              ~marc_input[k].isNone =>
                  LET res == project(marc_input[k], mapping)
                  IN  ~(res.raised /\ res.type \in SchemaErrors)

\* A finished export of a record that carries a tag the schema does not
\* define and, in a field whose subfields were requested, a code the schema
\* does not define.
C17_Witness ==
    /\ pc = "done"
    /\ \E i \in 1..Len(EmittedRows) :
          /\ \E n \in 1..Len(RecordOf(i).fields) :
                RecordOf(i).fields[n].tag \notin SchemaTags
          /\ \E n \in 1..Len(RecordOf(i).fields) :
                LET f == RecordOf(i).fields[n]
                IN  /\ DictHas(mapping, f.tag)
                    /\ ~DictVal(mapping, f.tag).isNone
                    /\ \E j \in 1..Len(f.subfields) :
                          f.subfields[j].code \notin SchemaCodes(f.tag)
          /\ RowOf(i) # << >>

====
